---- MODULE Spec2Model ----
(***************************************************************************)
(* Model of the pin production pipeline: the App component's generation    *)
(* run (handleStartGeneration / processPin), its publish pass              *)
(* (handleUploadAndExport / generateCSV) and the AI adapters               *)
(* (analyzeLink / generateImageSection).                                   *)
(*                                                                         *)
(* An async handler is cut at its awaits: every action is one synchronous  *)
(* segment of a handler, with all the setPins updates of that segment      *)
(* applied in order.                                                       *)
(***************************************************************************)
EXTENDS Integers, Sequences, FiniteSets, TLC

\* ---------------------------------------------------------------- bounds
MaxLinks == 3
MaxPasses == 2
MaxFaults == 2
NumSlots == 2
MaxRuns == 1

\* ------------------------------------------------------------- JS values
\* the value of an optional field that was never assigned
Undefined == "undefined"

\* result of a call that returns
Return(v) == [raised |-> FALSE, value |-> v]

\* result of a call that throws (or whose promise rejects) with e
Throw(e) == [raised |-> TRUE, value |-> e]

\* new Error(msg)
Error(msg) == [message |-> msg]

\* the Event an <img> passes to onerror: an object without a message
ErrorEvent == [message |-> Undefined]

\* { ...p, ...a }: the fields of a override those of p
Spread(p, a) ==
  [f \in (DOMAIN p) \cup (DOMAIN a) |-> IF f \in DOMAIN a THEN a[f] ELSE p[f]]

\* ------------------------------------------------------------ aiService
AnalysisFields == {"keyword", "title", "description", "seoKeywords"}

FullText == "{keyword,title,description,seoKeywords}"

FullAnalysis ==
  [keyword |-> "Best Lasagna", title |-> "Best Lasagna Ever",
   description |-> "A layered classic", seoKeywords |-> "lasagna, pasta"]

EmptyObject == [f \in {} |-> ""]

FallbackAnalysis ==
  [keyword |-> "New Recipe", title |-> "Delicious Recipe Idea",
   description |-> "Check out this amazing recipe found at the link!",
   seoKeywords |-> "recipe, food, cooking"]

Placeholder == "https://picsum.photos/1000/1000"

\* what ai.models.generateContent can do for the analysis prompt:
\* reject, or resolve with a response whose text is one of these
AnalysisResponses ==
  {[kind |-> "reject", text |-> Undefined],
   [kind |-> "ok", text |-> FullText],
   [kind |-> "ok", text |-> ""],
   [kind |-> "ok", text |-> Undefined],
   [kind |-> "ok", text |-> "<html>"]}

\* JSON.parse on the texts above
JSONParse(text) ==
  CASE text = FullText -> Return(FullAnalysis)
    [] text = "{}" -> Return(EmptyObject)
    [] OTHER -> Throw(Error("Unexpected token"))

getClient(apiKey) ==
  IF ~apiKey THEN Throw(Error("API Key not found")) ELSE Return("client")

analyzeLink(link, apiKey, response) ==
  IF getClient(apiKey).raised
  THEN getClient(apiKey)
  ELSE IF response.kind = "reject"
       THEN Return(FallbackAnalysis)
       ELSE LET text == IF response.text \in {Undefined, ""} THEN "{}" ELSE response.text
                parsed == JSONParse(text)
            IN IF parsed.raised THEN Return(FallbackAnalysis) ELSE parsed

\* a content part of an image response: inlineData is absent (<<>>) or
\* present (<<d>>)
NoData == [inlineData |-> <<>>]
ImgData == [inlineData |-> <<[mimeType |-> "image/png", data |-> "AAAA"]>>]

\* what generateContent can do for the image prompt: reject, or resolve
\* with a (possibly missing, read as empty) list of parts
ImageResponses ==
  {[kind |-> "reject", parts |-> <<>>],
   [kind |-> "ok", parts |-> <<>>],
   [kind |-> "ok", parts |-> <<NoData>>],
   [kind |-> "ok", parts |-> <<ImgData>>],
   [kind |-> "ok", parts |-> <<NoData, ImgData>>]}

\* `data:${mimeType};base64,${data}` for the image data of the responses
DataUrl(d) ==
  CASE d.mimeType = "image/png" /\ d.data = "AAAA" -> "data:image/png;base64,AAAA"
    [] OTHER -> "data:;base64,"

generateImageSection(prompt, contextKeyword, apiKey, response) ==
  IF getClient(apiKey).raised
  THEN getClient(apiKey)
  ELSE IF response.kind = "reject"
       THEN Return(Placeholder)
       ELSE LET withData == {k \in DOMAIN response.parts :
                               response.parts[k].inlineData # <<>>}
            IN IF withData = {}
               THEN Return(Placeholder)
               ELSE LET first == CHOOSE k \in withData : \A j \in withData : k <= j
                    IN Return(DataUrl(response.parts[first].inlineData[1]))

\* ----------------------------------------------------------- canvasUtils
\* what the browser can do during a composition: no 2d context, or either
\* source image failing to load
CanvasEnvs ==
  {[ctx |-> TRUE, topLoads |-> TRUE, bottomLoads |-> TRUE],
   [ctx |-> FALSE, topLoads |-> TRUE, bottomLoads |-> TRUE],
   [ctx |-> TRUE, topLoads |-> FALSE, bottomLoads |-> TRUE],
   [ctx |-> TRUE, topLoads |-> TRUE, bottomLoads |-> FALSE]}

ComposedImage == "data:image/jpeg;base64,PIN"

generatePinCanvas(topImageSrc, bottomImageSrc, keyword, env) ==
  IF ~env.ctx
  THEN Throw(Error("Could not get canvas context"))
  ELSE IF ~env.topLoads \/ ~env.bottomLoads
       THEN Throw(ErrorEvent)
       ELSE Return(ComposedImage)

\* ------------------------------------------------------------------ dates
\* a Date is its epoch milliseconds; an ISO-8601 string is the tuple of
\* its numeric fields <<days since epoch, HH, mm, ss, sss>>
\* the minutes added as seconds
AddMinutesAsSeconds(date, minutes) == date + minutes * 1000

addMinutes(date, minutes) == date + minutes * 60000

toISOString(date) ==
  <<date \div 86400000, (date \div 3600000) % 24, (date \div 60000) % 60,
    (date \div 1000) % 60, date % 1000>>

\* the publishDate of a pin that has none
NoDate == <<>>

\* the start dates the user can have entered (epoch milliseconds)
StartDates == {1800000, 85500000}

\* ------------------------------------------------------------------ state
VARIABLES
  apiKey,         \* process.env.API_KEY is set
  pinConfig,      \* [startDate]
  isGhConnected,
  pins,           \* the pins state: sequence of PinData
  isProcessing,
  progress,       \* <<numerator, denominator>> of the progress percentage / 100
  gen,            \* locals of the running handleStartGeneration / processPin
  pass,           \* locals of the handleUploadAndExport invocations, by slot
  csv,            \* rows of the last export of the batch handed to generateCSV
  faults,         \* number of adapter failures injected so far
  runs,           \* number of generation runs started
  passes,         \* number of publish passes started
  adapter,        \* harness of the adapter contracts: inputs and result
  canvas,         \* the font sizing of one generatePinCanvas call
  sheet           \* one generateCSV row: the pin, the line and its reading

vars ==
  <<apiKey, pinConfig, isGhConnected, pins, isProcessing, progress, gen, pass,
    csv, faults, runs, passes, adapter, canvas, sheet>>

Slots == 1..NumSlots

Statuses ==
  {"idle", "analyzing", "generating_images", "composing", "ready",
   "uploading", "done", "error"}

Pending == "pending"

NewPin(id, link) ==
  [id |-> id, link |-> link, status |-> "idle",
   keyword |-> "", title |-> "", description |-> "", seoKeywords |-> "",
   topImageBase64 |-> Undefined, bottomImageBase64 |-> Undefined,
   finalPinBase64 |-> Undefined, githubUrl |-> Undefined,
   publishDate |-> NoDate, errorMsg |-> Undefined]

\* a.f of an object that may lack the field
Get(a, f) == IF f \in DOMAIN a THEN a[f] ELSE Undefined

\* the update losing the second image and the publish date
MapPinDroppingFields(ps, id, a) ==
  [k \in DOMAIN ps |->
     IF ps[k].id = id
     THEN Spread(ps[k], [f \in (DOMAIN a) \ {"bottomImageBase64", "publishDate"} |-> a[f]])
     ELSE ps[k]]

\* setPins(prev => prev.map(p => p.id === id ? { ...p, ...a } : p))
MapPin(ps, id, a) ==
  [k \in DOMAIN ps |-> IF ps[k].id = id THEN Spread(ps[k], a) ELSE ps[k]]

\* the status written to every pin, the id test lost
UpdateEveryPinStatus(ps, id, status) ==
  [k \in DOMAIN ps |-> Spread(ps[k], [status |-> status])]

updatePinStatus(ps, id, status) == MapPin(ps, id, [status |-> status])

\* prev.find(x => x.id === pinId)?.link || ''
LinkOf(ps, id) ==
  IF \E k \in DOMAIN ps : ps[k].id = id
  THEN ps[CHOOSE k \in DOMAIN ps : ps[k].id = id].link
  ELSE ""

IdleGen ==
  [pc |-> "idle", ids |-> <<>>, i |-> 0, link |-> "",
   analysis |-> EmptyObject, top |-> Pending, bottom |-> Pending]

\* pins is the pins state the handler closed over; called and failed are the
\* indexes passed to the publisher and those for which it raised
IdlePass ==
  [pc |-> "idle", pins |-> <<>>, updatedPins |-> <<>>, i |-> 0,
   uploadedCount |-> 0, initialDate |-> 0, called |-> {}, failed |-> {}]

NoAdapterCall ==
  [fn |-> "none", pc |-> "none", link |-> "", prompt |-> "",
   contextKeyword |-> "", apiKey |-> TRUE, response |-> [kind |-> "none"],
   result |-> Return(Pending)]

\* no composition is sizing its caption
NoCanvas == [pc |-> "none", len |-> 0, advance |-> 0, fontSize |-> 0]

\* no row is being written
NoSheet == [pc |-> "none", pin |-> <<>>, line |-> <<>>]

Init ==
  /\ apiKey \in BOOLEAN
  /\ pinConfig \in [startDate : StartDates]
  /\ isGhConnected = FALSE
  /\ pins = <<>>
  /\ isProcessing = FALSE
  /\ progress = <<0, 1>>
  /\ gen = IdleGen
  /\ pass = [s \in Slots |-> IdlePass]
  /\ csv = <<>>
  /\ faults = 0
  /\ runs = 0
  /\ passes = 0
  /\ adapter = NoAdapterCall
  /\ canvas = NoCanvas
  /\ sheet = NoSheet

\* ------------------------------------------------------- generation run
\* the non-empty trimmed lines of pinConfig.links
Urls ==
  [k \in 1..(MaxLinks + 1) |->
     CASE k = 1 -> "https://example.com/r1"
       [] k = 2 -> "https://example.com/r2"
       [] k = 3 -> "https://example.com/r3"
       [] k = 4 -> "https://example.com/r4"
       [] OTHER -> "https://example.com/rN"]

TopPrompt == "ingredients on a rustic wooden table"
BottomPrompt == "finished dish plated beautifully"

\* the first synchronous segment of processPin(ids[i]) on pins state ps:
\* the status update and the read of the link
StartPin(ps, g, i) ==
  [pins |-> updatePinStatus(ps, g.ids[i], "analyzing"),
   gen |-> [g EXCEPT !.pc = "analyzing", !.i = i, !.link = LinkOf(ps, g.ids[i]),
              !.analysis = EmptyObject, !.top = Pending, !.bottom = Pending]]

\* the loop of handleStartGeneration left at the first pin that ends in error
AfterPinAbortOnError(ps) ==
  /\ progress' = <<gen.i, Len(gen.ids)>>
  /\ IF gen.i < Len(gen.ids)
        /\ ~\E k \in DOMAIN ps : ps[k].id = gen.ids[gen.i] /\ ps[k].status = "error"
     THEN /\ pins' = StartPin(ps, gen, gen.i + 1).pins
          /\ gen' = StartPin(ps, gen, gen.i + 1).gen
          /\ isProcessing' = isProcessing
     ELSE /\ pins' = ps
          /\ gen' = IdleGen
          /\ isProcessing' = FALSE

\* the loop of handleStartGeneration without its final setIsProcessing(false)
AfterPinKeepsProcessing(ps) ==
  /\ progress' = <<gen.i, Len(gen.ids)>>
  /\ isProcessing' = isProcessing
  /\ IF gen.i < Len(gen.ids)
     THEN /\ pins' = StartPin(ps, gen, gen.i + 1).pins
          /\ gen' = StartPin(ps, gen, gen.i + 1).gen
     ELSE /\ pins' = ps
          /\ gen' = IdleGen

\* processPin(ids[gen.i]) has returned with pins state ps: the rest of the
\* loop body of handleStartGeneration and the start of the next round
AfterPin(ps) ==
  /\ progress' = <<gen.i, Len(gen.ids)>>
  /\ IF gen.i < Len(gen.ids)
     THEN /\ pins' = StartPin(ps, gen, gen.i + 1).pins
          /\ gen' = StartPin(ps, gen, gen.i + 1).gen
          /\ isProcessing' = isProcessing
     ELSE /\ pins' = ps
          /\ gen' = IdleGen
          /\ isProcessing' = FALSE

\* the catch recording the message without the status
CatchPinKeepsStatus(ps, id, e) == MapPin(ps, id, [errorMsg |-> e.message])

\* catch (e) of processPin
CatchPin(ps, id, e) ==
  MapPin(ps, id, [status |-> "error", errorMsg |-> e.message])

HandleConnectGithub ==
  /\ \E valid \in BOOLEAN : isGhConnected' = valid
  /\ UNCHANGED <<canvas, sheet, apiKey, pinConfig, pins, isProcessing, progress, gen, pass,
                 csv, faults, runs, passes, adapter>>

HandleStartGeneration ==
  /\ ~isProcessing
  /\ isGhConnected
  /\ runs < MaxRuns
  /\ \E n \in 1..MaxLinks :
       LET newPins == [k \in 1..n |-> NewPin(<<runs + 1, k>>, Urls[k])]
           g == [IdleGen EXCEPT !.ids = [k \in 1..n |-> newPins[k].id]]
       IN /\ pins' = StartPin(newPins, g, 1).pins
          /\ gen' = StartPin(newPins, g, 1).gen
  /\ isProcessing' = TRUE
  /\ runs' = runs + 1
  \* what is remembered of the passes that have returned, and of their
  \* export, is about the batch that is replaced here
  /\ pass' = [s \in Slots |-> IF pass[s].pc = "idle" THEN IdlePass ELSE pass[s]]
  /\ csv' = <<>>
  /\ UNCHANGED <<canvas, sheet, apiKey, pinConfig, isGhConnected, progress, faults, passes, adapter>>

\* an adapter outcome other than the good one uses up one of the failures
\* the run is allowed
Fault(isFault) ==
  /\ isFault => faults < MaxFaults
  /\ faults' = IF isFault THEN faults + 1 ELSE faults

\* processPin resumes after await analyzeLink(currentLink)
AnalyzeLinkDone ==
  /\ gen.pc = "analyzing"
  /\ \E response \in AnalysisResponses :
       LET id == gen.ids[gen.i]
           r == analyzeLink(gen.link, apiKey, response)
       IN /\ Fault(gen.link # "" /\ apiKey /\ response.text # FullText)
          /\ IF gen.link = ""
             THEN AfterPin(pins)
             ELSE IF r.raised
                  THEN AfterPin(CatchPin(pins, id, r.value))
                  ELSE /\ pins' = updatePinStatus(MapPin(pins, id, r.value), id,
                                                  "generating_images")
                       /\ gen' = [gen EXCEPT !.pc = "images", !.analysis = r.value]
                       /\ UNCHANGED <<isProcessing, progress>>
  /\ UNCHANGED <<canvas, sheet, apiKey, pinConfig, isGhConnected, pass, csv, runs, passes, adapter>>

\* the join passed as soon as one call has settled
EitherSettled(g) == g.top # Pending \/ g.bottom # Pending

\* Promise.all of the two generateImageSection calls has resolved
BothSettled(g) == g.top # Pending /\ g.bottom # Pending

\* one of the two generateImageSection calls of Promise.all settles
ImageDone(which) ==
  /\ gen.pc = "images"
  /\ gen[which] = Pending
  /\ \E response \in ImageResponses :
       LET id == gen.ids[gen.i]
           r == generateImageSection(IF which = "top" THEN TopPrompt ELSE BottomPrompt,
                                     Get(gen.analysis, "keyword"), apiKey, response)
           g == [gen EXCEPT ![which] = r.value]
       IN /\ Fault(~r.raised /\ r.value = Placeholder)
          /\ IF r.raised
             THEN AfterPin(CatchPin(pins, id, r.value))
             ELSE IF BothSettled(g)
                  THEN /\ pins' = updatePinStatus(
                                    MapPin(pins, id, [topImageBase64 |-> g.top,
                                                      bottomImageBase64 |-> g.bottom]),
                                    id, "composing")
                       /\ gen' = [g EXCEPT !.pc = "composing"]
                       /\ UNCHANGED <<isProcessing, progress>>
                  ELSE /\ gen' = g
                       /\ UNCHANGED <<pins, isProcessing, progress>>
  /\ UNCHANGED <<canvas, sheet, apiKey, pinConfig, isGhConnected, pass, csv, runs, passes, adapter>>

\* processPin resumes after await generatePinCanvas(...)
ComposeDone ==
  /\ gen.pc = "composing"
  /\ \E env \in CanvasEnvs :
       LET id == gen.ids[gen.i]
           r == generatePinCanvas(gen.top, gen.bottom, Get(gen.analysis, "keyword"), env)
       IN /\ Fault(r.raised)
          /\ IF r.raised
             THEN AfterPin(CatchPin(pins, id, r.value))
             ELSE AfterPin(MapPin(pins, id, [finalPinBase64 |-> r.value,
                                             status |-> "ready"]))
  /\ UNCHANGED <<canvas, sheet, apiKey, pinConfig, isGhConnected, pass, csv, runs, passes, adapter>>

\* ---------------------------------------------------------- publish pass
\* what the GitHub contents API can do for the PUT: the fetch rejects, or
\* resolves with a response
UploadResponses ==
  {[kind |-> "reject", ok |-> FALSE, message |-> "Failed to fetch"],
   [kind |-> "response", ok |-> FALSE, message |-> "Bad credentials"],
   [kind |-> "response", ok |-> FALSE, message |-> ""],
   [kind |-> "response", ok |-> TRUE, message |-> ""]}

DownloadUrl == "https://raw.githubusercontent.com/u/r/main/pins/pin.jpg"

uploadImageToGitHub(filename, base64Content, response) ==
  IF response.kind = "reject"
  THEN Throw(Error(response.message))
  ELSE IF ~response.ok
       THEN Throw(Error(IF response.message = "" THEN "GitHub upload failed"
                        ELSE response.message))
       ELSE Return(DownloadUrl)

\* a text field of a row: the value between double quotes, its double
\* quotes doubled
Quoted(text) == [quoted |-> text]

\* the export filter letting through the pins still ready
IsDoneOrReady(p) == p.status \in {"done", "ready"}

IsDone(p) == p.status = "done"

generateCSV(donePins) ==
  [k \in DOMAIN donePins |->
     <<Quoted(donePins[k].title), donePins[k].githubUrl, "", "",
       Quoted(donePins[k].description), donePins[k].link,
       donePins[k].publishDate, Quoted(donePins[k].seoKeywords)>>]

\* the loop test without its status check
EligibleByImageOnly(pin) == pin.finalPinBase64 # Undefined

\* the loop test of handleUploadAndExport on the snapshot
Eligible(pin) == pin.status = "ready" /\ pin.finalPinBase64 # Undefined

\* the loop of handleUploadAndExport, entered at index from with locals l
\* and pins state ps: up to the next await, or to the export
UploadLoop(s, l, ps, from) ==
  LET next == {k \in from..Len(l.updatedPins) : Eligible(l.updatedPins[k])}
  IN IF next # {}
     THEN LET i == CHOOSE k \in next : \A j \in next : k <= j
          IN /\ pins' = updatePinStatus(ps, l.updatedPins[i].id, "uploading")
             /\ pass' = [pass EXCEPT ![s] = [l EXCEPT !.pc = "uploading", !.i = i,
                                              !.called = @ \cup {i}]]
             /\ csv' = csv
     ELSE /\ pins' = ps
          /\ pass' = [pass EXCEPT ![s] = [l EXCEPT !.pc = "idle"]]
          /\ csv' = generateCSV(SelectSeq(l.updatedPins, IsDone))

\* the count resumed from the pins already done
CountAlreadyDone(ps) == Cardinality({k \in DOMAIN ps : ps[k].status = "done"})

\* let uploadedCount = 0, whatever the pins closed over
InitialUploadedCount(ps) == 0

HandleUploadAndExport(s) ==
  /\ pass[s].pc = "idle"
  /\ passes < MaxPasses
  /\ ~(isProcessing \/ \A k \in DOMAIN pins : pins[k].status = "idle")
  /\ \E k \in DOMAIN pins : pins[k].status = "ready"
  /\ UploadLoop(s, [IdlePass EXCEPT !.pins = pins, !.updatedPins = pins,
                                    !.uploadedCount = InitialUploadedCount(pins),
                                    !.initialDate = pinConfig.startDate],
                pins, 1)
  /\ passes' = passes + 1
  /\ UNCHANGED <<canvas, sheet, apiKey, pinConfig, isGhConnected, isProcessing, progress, gen,
                 faults, runs, adapter>>

\* handleUploadAndExport resumes after await uploadImageToGitHub(...)
UploadDone(s) ==
  /\ pass[s].pc = "uploading"
  /\ \E response \in UploadResponses :
       LET l == pass[s]
           pin == l.updatedPins[l.i]
           r == uploadImageToGitHub("pin.jpg", pin.finalPinBase64, response)
           publishTime == addMinutes(l.initialDate, l.uploadedCount * 30)
           updated == [l.updatedPins EXCEPT ![l.i] =
                         Spread(pin, [status |-> "done", githubUrl |-> r.value,
                                      publishDate |-> toISOString(publishTime)])]
       IN /\ Fault(r.raised)
          /\ IF r.raised
             THEN UploadLoop(s, [l EXCEPT !.failed = @ \cup {l.i}],
                             updatePinStatus(pins, pin.id, "error"), l.i + 1)
             ELSE UploadLoop(s, [l EXCEPT !.updatedPins = updated,
                                          !.uploadedCount = @ + 1],
                             updated, l.i + 1)
  /\ UNCHANGED <<canvas, sheet, apiKey, pinConfig, isGhConnected, isProcessing, progress, gen,
                 runs, passes, adapter>>

\* ------------------------------------------------------- specification
\* no handler is waiting on an await
Quiet == ~isProcessing /\ \A s \in Slots : pass[s].pc = "idle"

\* the user starts an operation only when the previous one has finished
ClickConnect == Quiet /\ HandleConnectGithub

ClickGenerate == Quiet /\ HandleStartGeneration

ClickUpload == Quiet /\ HandleUploadAndExport(1)

Next ==
  \/ ClickConnect
  \/ ClickGenerate
  \/ AnalyzeLinkDone
  \/ \E which \in {"top", "bottom"} : ImageDone(which)
  \/ ComposeDone
  \/ ClickUpload
  \/ \E s \in Slots : UploadDone(s)

Spec == Init /\ [][Next]_vars

TypeOK ==
  /\ \A k \in DOMAIN pins : pins[k].status \in Statuses
  /\ faults <= MaxFaults

\* ------------------------------------------------- the adapter contracts
\* analyzeLink and generateImageSection called on their own, for every
\* combination of link or prompt, API key and provider response
AnalyzeCalls ==
  {[fn |-> "analyzeLink", pc |-> "call", link |-> Urls[k], prompt |-> "",
    contextKeyword |-> "", apiKey |-> key, response |-> response,
    result |-> Return(Pending)] :
      k \in DOMAIN Urls, key \in BOOLEAN, response \in AnalysisResponses}

ImageCalls ==
  {[fn |-> "generateImageSection", pc |-> "call", link |-> "", prompt |-> prompt,
    contextKeyword |-> keyword, apiKey |-> key, response |-> response,
    result |-> Return(Pending)] :
      prompt \in {TopPrompt, BottomPrompt},
      keyword \in {FullAnalysis.keyword, FallbackAnalysis.keyword, Undefined},
      key \in BOOLEAN, response \in ImageResponses}

InitAdapters ==
  /\ adapter \in AnalyzeCalls \cup ImageCalls
  /\ canvas = NoCanvas
  /\ sheet = NoSheet
  /\ apiKey = adapter.apiKey
  /\ pinConfig \in [startDate : StartDates]
  /\ isGhConnected = FALSE
  /\ pins = <<>>
  /\ isProcessing = FALSE
  /\ progress = <<0, 1>>
  /\ gen = IdleGen
  /\ pass = [s \in Slots |-> IdlePass]
  /\ csv = <<>>
  /\ faults = 0
  /\ runs = 0
  /\ passes = 0

CallAnalyzeLink ==
  /\ adapter.fn = "analyzeLink"
  /\ adapter.pc = "call"
  /\ adapter' = [adapter EXCEPT !.pc = "settled",
                   !.result = analyzeLink(adapter.link, apiKey, adapter.response)]
  /\ UNCHANGED <<canvas, sheet, apiKey, pinConfig, isGhConnected, pins, isProcessing, progress,
                 gen, pass, csv, faults, runs, passes>>

CallGenerateImageSection ==
  /\ adapter.fn = "generateImageSection"
  /\ adapter.pc = "call"
  /\ adapter' = [adapter EXCEPT !.pc = "settled",
                   !.result = generateImageSection(adapter.prompt,
                                adapter.contextKeyword, apiKey, adapter.response)]
  /\ UNCHANGED <<canvas, sheet, apiKey, pinConfig, isGhConnected, pins, isProcessing, progress,
                 gen, pass, csv, faults, runs, passes>>

NextAdapters == CallAnalyzeLink \/ CallGenerateImageSection

SpecAdapters == InitAdapters /\ [][NextAdapters]_vars

\* an internal failure of analyzeLink: no API key, the AI call rejects, or
\* the response text does not parse
AnalyzeFailure(call) ==
  \/ ~call.apiKey
  \/ call.response.kind = "reject"
  \/ call.response.text \notin {Undefined, "", FullText}

\* an internal failure of generateImageSection: no API key, the AI call
\* rejects, or no part of the response carries image data
ImageFailure(call) ==
  \/ ~call.apiKey
  \/ call.response.kind = "reject"
  \/ \A k \in DOMAIN call.response.parts : call.response.parts[k].inlineData = <<>>

\* C9: analyzeLink never raises to its caller; on every internal failure
\* (missing API key, failed AI call, unparsable response) it returns the
\* fixed fallback record.
C9_AnalyzeNeverRaises ==
  (adapter.fn = "analyzeLink" /\ adapter.pc = "settled") =>
     /\ ~adapter.result.raised
     /\ AnalyzeFailure(adapter) => adapter.result.value = FallbackAnalysis

\* C10: generateImageSection never raises to its caller; on every internal
\* failure (missing API key, failed AI call, no image part) it returns the
\* placeholder image reference.
C10_ImageNeverRaises ==
  (adapter.fn = "generateImageSection" /\ adapter.pc = "settled") =>
     /\ ~adapter.result.raised
     /\ ImageFailure(adapter) => adapter.result.value = Placeholder

\* ------------------------------------------------------------ properties
Intermediate == {"analyzing", "generating_images", "composing"}

\* the generation run has returned and no publish pass has touched its batch
RunEnded == runs > 0 /\ ~isProcessing /\ passes = 0

ReadyPopulated(p) ==
  /\ p.status = "ready"
  /\ \A f \in AnalysisFields : p[f] \notin {"", Undefined}
  /\ p.topImageBase64 # Undefined
  /\ p.bottomImageBase64 # Undefined
  /\ p.finalPinBase64 # Undefined

ErrorRecorded(p) == p.status = "error" /\ p.errorMsg # Undefined

\* C1: when a generation run has finished, every item is either ready with
\* keyword, title, description, seoKeywords, top, bottom and final image all
\* populated, or error with errorMessage set.
C1_RunEndsReadyOrError ==
  RunEnded => \A k \in DOMAIN pins : ReadyPopulated(pins[k]) \/ ErrorRecorded(pins[k])

\* the edges of the item state machine
StatusEdges ==
  {<<"idle", "analyzing">>, <<"analyzing", "generating_images">>,
   <<"generating_images", "composing">>, <<"composing", "ready">>,
   <<"ready", "uploading">>, <<"uploading", "done">>}
    \cup {<<st, "error">> : st \in Statuses \ {"done", "error"}}

\* C2: every change of an item's status follows an edge of the state machine
\* or goes to error from a non-terminal state; done and error never change.
C2_StatusFollowsEdges ==
  [][\A k \in DOMAIN pins : \A j \in DOMAIN pins' :
       (pins[k].id = pins'[j].id /\ pins[k].status # pins'[j].status)
          => <<pins[k].status, pins'[j].status>> \in StatusEdges]_vars

\* a publish pass has run its loop to the end on the batch still displayed
PassEnded(s) ==
  /\ pass[s].pc = "idle"
  /\ pass[s].pins # <<>>
  /\ ~isProcessing
  /\ Len(pins) = Len(pass[s].pins)
  /\ \A k \in DOMAIN pins : pins[k].id = pass[s].pins[k].id

GenerationData ==
  AnalysisFields \cup {"topImageBase64", "bottomImageBase64", "finalPinBase64"}

\* C3: at the end of a publish pass every item whose publish call failed in
\* that pass has status error, no publishedUrl, no scheduledPublishTime, and
\* the analysis fields, images and final image it had when it was ready.
C3_FailedPublishIsError ==
  \A s \in Slots : PassEnded(s) =>
    \A k \in pass[s].failed :
      /\ pins[k].status = "error"
      /\ pins[k].githubUrl = Undefined
      /\ pins[k].publishDate = NoDate
      /\ \A f \in GenerationData : pins[k][f] = pass[s].pins[k][f]

\* the pins state still shows the batch the pass in slot s started on
SameBatch(s) ==
  /\ Len(pins) = Len(pass[s].pins)
  /\ \A k \in DOMAIN pins : pins[k].id = pass[s].pins[k].id

\* the indexes whose publish call has succeeded in the pass with locals l
Published(l) == (l.called \ l.failed) \ (IF l.pc = "uploading" THEN {l.i} ELSE {})

\* epoch milliseconds of an ISO-8601 string
ParseISO(t) == t[1] * 86400000 + t[2] * 3600000 + t[3] * 60000 + t[4] * 1000 + t[5]

\* C4: within one publish pass the k-th item (from 0, in item order) whose
\* publish call succeeds is scheduled at startTime + 30 minutes x k; failed
\* and skipped items consume no slot.
C4_ScheduleSlots ==
  \A s \in Slots : \A j \in Published(pass[s]) :
    LET l == pass[s]
        k == Cardinality({m \in Published(l) : m < j})
        date == l.updatedPins[j].publishDate
    IN /\ date # NoDate
       /\ ParseISO(date) = l.initialDate + 30 * 60000 * k
       /\ SameBatch(s) => pins[j].publishDate = date

\* three ready items, the 2nd fails: items 1 and 3 are at start+0 and start+30
C4_Witness ==
  /\ PassEnded(1)
  /\ Len(pins) = 3
  /\ \A k \in 1..3 : pass[1].pins[k].status = "ready"
  /\ pass[1].failed = {2}
  /\ Published(pass[1]) = {1, 3}
  /\ ParseISO(pins[1].publishDate) = pinConfig.startDate
  /\ ParseISO(pins[3].publishDate) = pinConfig.startDate + 30 * 60000

\* C5: during a generation run at most one item is in analyzing,
\* generating_images or composing, and an item has left idle only if every
\* item before it in the list has reached ready or error.
C5_OneItemAtATime ==
  isProcessing =>
    /\ Cardinality({k \in DOMAIN pins : pins[k].status \in Intermediate}) <= 1
    /\ \A k \in DOMAIN pins : pins[k].status # "idle" =>
         \A j \in 1..(k - 1) : pins[j].status \in {"ready", "error"}

C5_Witness ==
  /\ isProcessing
  /\ Len(pins) = 3
  /\ pins[1].status = "error"
  /\ pins[2].status = "composing"
  /\ pins[3].status = "idle"

\* C6: a generation run that has returned has left no item idle or in an
\* intermediate stage, whatever items ended in error; and a publish pass
\* that has ended has called the publisher for every item that was ready with
\* a final image, whatever calls failed before it.
C6_FailureDoesNotAbort ==
  /\ ~isProcessing =>
       \A k \in DOMAIN pins : pins[k].status \notin {"idle"} \cup Intermediate
  /\ \A s \in Slots : PassEnded(s) =>
       \A k \in DOMAIN pass[s].pins :
         (pass[s].pins[k].status = "ready" /\ pass[s].pins[k].finalPinBase64 # Undefined)
            => k \in pass[s].called

\* item 1 fails in generation and items 2, 3 still reach ready; the publish
\* of item 2 fails and item 3 is still published
C6_Witness ==
  /\ PassEnded(1)
  /\ Len(pins) = 3
  /\ pass[1].pins[1].status = "error"
  /\ pass[1].pins[2].status = "ready"
  /\ pass[1].pins[3].status = "ready"
  /\ pass[1].failed = {2}
  /\ Published(pass[1]) = {3}
  /\ pins[3].status = "done"

C8_OnlyReadyItemsPublished ==
  \A s \in Slots :
    /\ \A k \in pass[s].called :
         pass[s].pins[k].status = "ready" /\ pass[s].pins[k].finalPinBase64 # Undefined
    /\ PassEnded(s) =>
         \A k \in DOMAIN pins : k \notin pass[s].called =>
           /\ pins[k].status = pass[s].pins[k].status
           /\ pins[k].githubUrl = pass[s].pins[k].githubUrl
           /\ pins[k].publishDate = pass[s].pins[k].publishDate

\* a pass that skipped an item in error and an item already done and called
\* the publisher for the remaining one
C8_Witness ==
  /\ PassEnded(1)
  /\ \E a, b, c \in DOMAIN pins :
       /\ a \notin pass[1].called /\ pass[1].pins[a].status = "error"
       /\ b \notin pass[1].called /\ pass[1].pins[b].status = "done"
       /\ c \in pass[1].called

\* C11: when the publisher fails for an item, that item (and only that
\* item) gets status error with the provider's error message in errorMsg.
C11_PublishFailureRecorded ==
  [][\A s \in Slots :
       (pass[s].pc = "uploading" /\ pass'[s].failed # pass[s].failed) =>
          LET id == pass[s].updatedPins[pass[s].i].id
          IN \A k \in DOMAIN pins' : pins'[k].id = id =>
               pins'[k].status = "error" /\ pins'[k].errorMsg # Undefined]_vars

\* C12: in every state each field group of every item is wholly absent or
\* wholly present: the four analysis fields, the two images, and the
\* published url with the publish date.
C12_FieldGroupsAtomic ==
  \A k \in DOMAIN pins :
    LET p == pins[k]
    IN /\ (\A f \in AnalysisFields : p[f] \in {"", Undefined})
            \/ (\A f \in AnalysisFields : p[f] \notin {"", Undefined})
       /\ (p.topImageBase64 = Undefined) <=> (p.bottomImageBase64 = Undefined)
       /\ (p.githubUrl = Undefined) <=> (p.publishDate = NoDate)

\* a published item with every group present, beside an item whose
\* publish failed, with its analysis and images and no upload results
C12_Witness ==
  \E k, j \in DOMAIN pins :
    /\ pins[k].status = "done"
    /\ pins[k].githubUrl # Undefined
    /\ pins[k].publishDate # NoDate
    /\ pins[j].status = "error"
    /\ pins[j].keyword # ""
    /\ pins[j].topImageBase64 # Undefined
    /\ pins[j].bottomImageBase64 # Undefined
    /\ pins[j].githubUrl = Undefined

\* C17: an item carries an errorMsg only while its status is error.
C17_ErrorMsgOnlyInError ==
  \A k \in DOMAIN pins : pins[k].errorMsg # Undefined => pins[k].status = "error"

\* an item that failed in generation, seen after a publish pass wrote the
\* pins state back
C17_Witness ==
  /\ PassEnded(1)
  /\ \E k, j \in DOMAIN pins :
       /\ pins[k].errorMsg # Undefined
       /\ pins[k].status = "error"
       /\ pins[j].status = "done"

\* the position in pins of the pin processPin is working on (0 if none)
Current ==
  IF gen.pc = "idle" \/ ~\E k \in DOMAIN pins : pins[k].id = gen.ids[gen.i]
  THEN 0
  ELSE CHOOSE k \in DOMAIN pins : pins[k].id = gen.ids[gen.i]

\* C18: a stage of processPin that raises takes the item straight to error
\* with the raised message in errorMsg, and no later stage runs for it: the
\* image calls and the compositor are in flight only for an item in
\* generating_images or composing; an item becomes ready only from composing,
\* in the update that stores the compositor's result as its final image.
C18_StageFailureGoesToError ==
  [][isProcessing =>
       /\ \A k \in DOMAIN pins : \A j \in DOMAIN pins' :
            (pins[k].id = pins'[j].id /\ pins[k].status # pins'[j].status) =>
               /\ pins'[j].status = "error" =>
                    pins[k].status \in Intermediate /\ pins'[j].errorMsg # Undefined
               /\ pins'[j].status = "ready" =>
                    /\ pins[k].status = "composing"
                    /\ pins[k].finalPinBase64 = Undefined
                    /\ pins'[j].finalPinBase64 # Undefined
       /\ gen.pc = "images" => pins[Current].status = "generating_images"
       /\ gen.pc = "composing" => pins[Current].status = "composing"]_vars

\* C19: both image calls are in flight when the item enters
\* generating_images; the item is in composing, and the compositor called,
\* only when both calls have returned, and then with their two results.
C19_BothImagesBeforeComposing ==
  /\ gen.pc = "images" =>
       /\ pins[Current].status = "generating_images"
       /\ gen.top = Pending \/ gen.bottom = Pending
       /\ pins[Current].topImageBase64 = Undefined
       /\ pins[Current].bottomImageBase64 = Undefined
  /\ \A k \in DOMAIN pins : pins[k].status = "composing" =>
       /\ gen.pc = "composing" /\ k = Current
       /\ gen.top # Pending /\ gen.bottom # Pending
       /\ pins[k].topImageBase64 = gen.top
       /\ pins[k].bottomImageBase64 = gen.bottom
  /\ \A k \in DOMAIN pins : pins[k].status = "generating_images" =>
       gen.pc = "images" /\ k = Current

\* the bottom call has returned first and the item still waits for the top
C19_Witness ==
  /\ gen.pc = "images"
  /\ gen.bottom # Pending
  /\ gen.top = Pending
  /\ pins[Current].status = "generating_images"

\* C20: in every publish pass the first item published gets the start time
\* itself, however many items earlier passes published, and the items that
\* were done when the pass started keep their url and publish date.
C20_SlotsRestartEachPass ==
  \A s \in Slots :
    LET l == pass[s]
    IN /\ \A j \in Published(l) :
            (\A m \in Published(l) : j <= m) =>
               /\ ParseISO(l.updatedPins[j].publishDate) = l.initialDate
               /\ SameBatch(s) => ParseISO(pins[j].publishDate) = l.initialDate
       /\ \A k \in DOMAIN l.pins : l.pins[k].status = "done" =>
            /\ l.updatedPins[k].githubUrl = l.pins[k].githubUrl
            /\ l.updatedPins[k].publishDate = l.pins[k].publishDate
            /\ SameBatch(s) =>
                 /\ pins[k].status = "done"
                 /\ pins[k].githubUrl = l.pins[k].githubUrl
                 /\ pins[k].publishDate = l.pins[k].publishDate

\* a second pass has published an item at the start time while an item
\* published by the first pass keeps the same start time
C20_Witness ==
  /\ PassEnded(1)
  /\ passes = 2
  /\ \E j \in Published(pass[1]) : \E k \in DOMAIN pins :
       /\ pass[1].pins[k].status = "done"
       /\ ParseISO(pins[j].publishDate) = pinConfig.startDate
       /\ ParseISO(pins[k].publishDate) = pinConfig.startDate

\* ------------------------------------------------- overlapping operations
\* The Upload button is disabled by isProcessing || pins.every(idle) and the
\* Generate button by isProcessing: neither looks at a publish pass that is
\* waiting on an upload, so the user can start a pass or a run during a pass.
\* A new invocation of handleUploadAndExport takes the lowest slot whose
\* invocation has returned.
PressUpload ==
  \E s \in Slots :
    /\ pass[s].pc = "idle"
    /\ \A t \in Slots : t < s => pass[t].pc # "idle"
    /\ HandleUploadAndExport(s)

NextOverlap ==
  \/ HandleConnectGithub
  \/ HandleStartGeneration
  \/ AnalyzeLinkDone
  \/ \E which \in {"top", "bottom"} : ImageDone(which)
  \/ ComposeDone
  \/ PressUpload
  \/ \E s \in Slots : UploadDone(s)

SpecOverlap == Init /\ [][NextOverlap]_vars

\* the id of the pin the pass in slot s is uploading
Uploading(s) == pass[s].updatedPins[pass[s].i].id

\* C13: no item is mutated by two activities in flight at once: two passes
\* never upload the same item at the same time, and a step of one activity
\* never overwrites the status of the item another pass is uploading.
C13_NoConcurrentMutation ==
  [][/\ \A s, t \in Slots :
          (s # t /\ pass[s].pc = "uploading" /\ pass[t].pc = "uploading")
             => Uploading(s) # Uploading(t)
     /\ \A s \in Slots :
          (pass[s].pc = "uploading" /\ pass'[s] = pass[s]) =>
             \A k \in DOMAIN pins : \A j \in DOMAIN pins' :
               (pins[k].id = Uploading(s) /\ pins'[j].id = Uploading(s))
                  => pins'[j].status = pins[k].status]_vars

\* the publish call for the item with id x has succeeded before, as far as
\* the state tells: the item is done, or the pass in another slot has it
\* among the items it has published
SucceededBefore(s, x) ==
  \/ \E k \in DOMAIN pins : pins[k].id = x /\ pins[k].status = "done"
  \/ \E t \in Slots \ {s} : \E k \in Published(pass[t]) :
       pass[t].updatedPins[k].id = x

\* C21: the publisher succeeds at most once per item, whether the passes
\* follow one another or overlap: a publish call that succeeds is never for
\* an item whose publish call has succeeded before.
C21_PublishedAtMostOnce ==
  [][\A s \in Slots :
       (/\ pass[s].pc = "uploading"
        /\ pass'[s].uploadedCount = pass[s].uploadedCount + 1)
          => ~SucceededBefore(s, Uploading(s))]_vars

\* ------------------------------------------------------------- progress
\* The generation run on its own: while isProcessing the Upload button is
\* disabled, so no step of a publish pass falls between the steps of a run
\* of the one-at-a-time use.
NextRun ==
  \/ ClickConnect
  \/ ClickGenerate
  \/ AnalyzeLinkDone
  \/ \E which \in {"top", "bottom"} : ImageDone(which)
  \/ ComposeDone

\* every adapter and compositor call that is awaited eventually settles
SpecRun ==
  /\ Init
  /\ [][NextRun]_vars
  /\ WF_vars(AnalyzeLinkDone)
  /\ WF_vars(ImageDone("top"))
  /\ WF_vars(ImageDone("bottom"))
  /\ WF_vars(ComposeDone)

\* C14: a generation run that has started eventually clears isProcessing,
\* and the step that clears it leaves every item of the batch ready or error.
C14_RunCompletes ==
  /\ isProcessing ~> ~isProcessing
  /\ [][(isProcessing /\ ~isProcessing') =>
          /\ pins' # <<>>
          /\ \A k \in DOMAIN pins' : pins'[k].status \in {"ready", "error"}]_vars

\* a run over three links has returned
C14_Witness ==
  /\ runs = 1
  /\ ~isProcessing
  /\ gen.pc = "idle"
  /\ Len(pins) = 3
  /\ progress = <<3, 3>>
  /\ \A k \in DOMAIN pins : pins[k].status \in {"ready", "error"}

\* ------------------------------------------------- caption font sizing
\* The banner text of generatePinCanvas, one loop test at a time. A caption
\* is its number of glyphs and the advance of a glyph in hundredths of the
\* font size; widths are kept in hundredths of a pixel so that the
\* comparison with the banner is exact.
MaxCaption == 30

Advances == {50, 60}

bannerW == 380

maxTextWidth == bannerW - 40

\* ctx.measureText(keyword).width under `bold ${fontSize}px`, in hundredths
measureText(len, advance, fontSize) == len * advance * fontSize

\* the loop test with the floor included
LoopTestBelowFloor(width, fontSize) ==
  width > maxTextWidth * 100 /\ fontSize >= 20

\* the test of the while loop
LoopTest(width, fontSize) ==
  width > maxTextWidth * 100 /\ fontSize > 20

InitFont ==
  /\ canvas \in [pc : {"loop"}, len : 0..MaxCaption, advance : Advances,
                 fontSize : {48}]
  /\ sheet = NoSheet
  /\ adapter = NoAdapterCall
  /\ apiKey = TRUE
  /\ pinConfig \in [startDate : StartDates]
  /\ isGhConnected = FALSE
  /\ pins = <<>>
  /\ isProcessing = FALSE
  /\ progress = <<0, 1>>
  /\ gen = IdleGen
  /\ pass = [s \in Slots |-> IdlePass]
  /\ csv = <<>>
  /\ faults = 0
  /\ runs = 0
  /\ passes = 0

\* the loop body: fontSize -= 2 and the font is set again
ShrinkFont ==
  /\ canvas.pc = "loop"
  /\ LoopTest(measureText(canvas.len, canvas.advance, canvas.fontSize),
              canvas.fontSize)
  /\ canvas' = [canvas EXCEPT !.fontSize = @ - 2]
  /\ UNCHANGED <<sheet, apiKey, pinConfig, isGhConnected, pins, isProcessing,
                 progress, gen, pass, csv, faults, runs, passes, adapter>>

\* the loop test fails and the text is drawn at the current size
DrawText ==
  /\ canvas.pc = "loop"
  /\ ~LoopTest(measureText(canvas.len, canvas.advance, canvas.fontSize),
               canvas.fontSize)
  /\ canvas' = [canvas EXCEPT !.pc = "done"]
  /\ UNCHANGED <<sheet, apiKey, pinConfig, isGhConnected, pins, isProcessing,
                 progress, gen, pass, csv, faults, runs, passes, adapter>>

NextFont == ShrinkFont \/ DrawText

\* the compositor runs to completion once called
SpecFont == InitFont /\ [][NextFont]_vars /\ WF_vars(NextFont)

\* the sizes above the floor, and whether the caption fits the banner at s
StepsAboveFloor == {s \in 22..48 : s % 2 = 0}

Fits(s) == measureText(canvas.len, canvas.advance, s) <= 340 * 100

\* C16: the font loop ends for every caption, and the size the text is
\* drawn at is even and within 20..48: the largest of 48, 46, ..., 22 at
\* which the caption is at most 340 wide, or 20 when it fits at none.
C16_FontLoopTerminates ==
  /\ (canvas.pc = "loop") ~> (canvas.pc = "done")
  /\ [](canvas.pc = "done" =>
          /\ canvas.fontSize \in 20..48
          /\ canvas.fontSize % 2 = 0
          /\ IF \E s \in StepsAboveFloor : Fits(s)
               THEN /\ canvas.fontSize \in StepsAboveFloor
                    /\ Fits(canvas.fontSize)
                    /\ \A s \in StepsAboveFloor :
                         Fits(s) => s <= canvas.fontSize
               ELSE canvas.fontSize = 20)

\* the text is drawn at the floor while it still overflows the banner
C16_Witness ==
  /\ canvas.pc = "done"
  /\ canvas.fontSize = 20
  /\ ~Fits(20)

\* ------------------------------------------------------ export row text
\* generateCSV on one done pin, with every string a sequence of characters:
\* the row is the line of the file, and reading the line back is the test
\* of the quoting.
MaxText == 2

Comma == ","

DoubleQuote == "\""

Alphabet == {"a", Comma, DoubleQuote}

\* He said "hi"
HeSaidHi ==
  <<"H", "e", " ", "s", "a", "i", "d", " ", DoubleQuote, "h", "i", DoubleQuote>>

Texts == UNION {[1..n -> Alphabet] : n \in 0..MaxText} \cup {HeSaidHi}

\* text.replace(/"/g, '""')
RECURSIVE replaceQuotes(_)
replaceQuotes(text) ==
  IF text = <<>> THEN <<>>
  ELSE (IF Head(text) = DoubleQuote THEN <<DoubleQuote, DoubleQuote>>
        ELSE <<Head(text)>>) \o replaceQuotes(Tail(text))

\* the template `"${text.replace(/"/g, '""')}"`
QuotedText(text) == <<DoubleQuote>> \o replaceQuotes(text) \o <<DoubleQuote>>

\* Array.prototype.join
RECURSIVE join(_, _)
join(fields, separator) ==
  IF fields = <<>> THEN <<>>
  ELSE IF Len(fields) = 1 THEN fields[1]
  ELSE fields[1] \o <<separator>> \o join(Tail(fields), separator)

\* the array generateCSV builds for the pin p
csvRow(p) ==
  <<QuotedText(p.title), p.githubUrl, <<>>, <<>>, QuotedText(p.description),
    p.link, p.publishDate, QuotedText(p.seoKeywords)>>

\* the done pins a row is written for: the title comes from the analysis,
\* the link is a non-empty line of the configuration
SheetPins ==
  [title : Texts, githubUrl : {<<"u">>}, description : {<<"a", Comma, "b">>},
   link : Texts \ {<<>>}, publishDate : {<<"d">>},
   seoKeywords : {<<"r", Comma, "f">>}]

InitSheet ==
  /\ sheet \in [pc : {"call"}, pin : SheetPins, line : {<<>>}]
  /\ canvas = NoCanvas
  /\ adapter = NoAdapterCall
  /\ apiKey = TRUE
  /\ pinConfig \in [startDate : StartDates]
  /\ isGhConnected = FALSE
  /\ pins = <<>>
  /\ isProcessing = FALSE
  /\ progress = <<0, 1>>
  /\ gen = IdleGen
  /\ pass = [s \in Slots |-> IdlePass]
  /\ csv = <<>>
  /\ faults = 0
  /\ runs = 0
  /\ passes = 0

\* rows.map(r => r.join(',')) for the row of the pin
WriteRow ==
  /\ sheet.pc = "call"
  /\ sheet' = [sheet EXCEPT !.pc = "done",
                            !.line = join(csvRow(sheet.pin), Comma)]
  /\ UNCHANGED <<canvas, apiKey, pinConfig, isGhConnected, pins, isProcessing,
                 progress, gen, pass, csv, faults, runs, passes, adapter>>

NextSheet == WriteRow

SpecSheet == InitSheet /\ [][NextSheet]_vars

\* Reading a line of a CSV file into its fields: a field that opens with a
\* double quote runs to the closing double quote, a doubled double quote
\* inside it standing for one; any other field runs to the next comma.
RECURSIVE ReadFields(_, _, _, _)
ReadFields(line, i, field, mode) ==
  IF i > Len(line) THEN <<field>>
  ELSE LET c == line[i]
       IN CASE mode = "start" /\ c = DoubleQuote ->
                 ReadFields(line, i + 1, field, "quoted")
            [] mode = "quoted" /\ c = DoubleQuote ->
                 IF i < Len(line) /\ line[i + 1] = DoubleQuote
                   THEN ReadFields(line, i + 2, Append(field, c), "quoted")
                   ELSE ReadFields(line, i + 1, field, "closed")
            [] mode = "quoted" /\ c # DoubleQuote ->
                 ReadFields(line, i + 1, Append(field, c), "quoted")
            [] mode # "quoted" /\ c = Comma ->
                 <<field>> \o ReadFields(line, i + 1, <<>>, "start")
            [] OTHER ->
                 ReadFields(line, i + 1, Append(field, c),
                            IF mode = "start" THEN "bare" ELSE mode)

ReadCsvLine(line) == ReadFields(line, 1, <<>>, "start")

\* the values of the eight columns of the pin p
FieldValues(p) ==
  <<p.title, p.githubUrl, <<>>, <<>>, p.description, p.link, p.publishDate,
    p.seoKeywords>>

\* "He said ""hi"""
HeSaidHiEmitted ==
  <<DoubleQuote, "H", "e", " ", "s", "a", "i", "d", " ", DoubleQuote,
    DoubleQuote, "h", "i", DoubleQuote, DoubleQuote, DoubleQuote>>

\* C15: the line written for a pin reads back as the values of its eight
\* columns, whatever commas and double quotes they hold, and the title
\* He said "hi" is written as "He said ""hi""".
C15_RowReadsBack ==
  sheet.pc = "done" =>
    /\ ReadCsvLine(sheet.line) = FieldValues(sheet.pin)
    /\ sheet.pin.title = HeSaidHi =>
         SubSeq(sheet.line, 1, Len(HeSaidHiEmitted)) = HeSaidHiEmitted

====
